---- MODULE Spec2Model ----
(***************************************************************************)
(* The Secure Partition Manager dispatcher of services/std_svc/spm/        *)
(* spm_main.c as a state machine: the SPM payload state (spm_ctx and       *)
(* sp_init_in_progress), the context-management state it drives (the       *)
(* per-world register banks, the live EL1 system registers and the next    *)
(* ERET target), the C runtime frames captured by the synchronous entry,   *)
(* and one action per call into the file: spm_setup, spm_init and          *)
(* spm_smc_handler.                                                        *)
(*                                                                         *)
(* A C function is an operator from a machine record m (every variable as  *)
(* a field, plus the log of the collaborator calls made) to the machine    *)
(* record after it; an action evaluates the operator on the current state  *)
(* and commits the result.                                                 *)
(***************************************************************************)
EXTENDS Integers, Sequences, FiniteSets, TLC

VARIABLES
    DEBUG,                \* build flag DEBUG (line 92)
    NDEBUG,               \* build flag of <assert.h>: TRUE compiles assert() out
    ep_info,              \* the descriptor bl31_plat_get_next_image_ep_info(SECURE) gives
    spm_ctx,              \* line 48: [c_rt_ctx, cpu_ctx]
    sp_init_in_progress,  \* line 49
    ns_cpu_ctx,           \* the non-secure world's cpu_context_t
    cm_context,           \* cm_get_context / cm_set_context: world -> context pointer
    next_eret_context,    \* cm_set_next_eret_context: the world the next ERET enters
    el1_sysregs,          \* the live EL1 system registers
    xlat,                 \* the translation collaborator: built flag, and the request
                          \* the last action made of it (if any)
    bl32_init,            \* the callback given to bl31_register_bl32_init
    c_stack,              \* C runtime frames blocked in spm_secure_partition_enter
    running,              \* who executes: BL31, SECURE, NON_SECURE, PANIC, UNDEFINED
    boot,                 \* BL31's boot flow: cold, setup_done, in_init, init_done, runtime
    setup_rc,             \* what spm_setup returned (NoRc before)
    entry_rc,             \* what spm_synchronous_sp_entry returned last (NoRc before)
    init_rc,              \* what spm_init returned last (NoRc before)
    smc,                  \* the call dispatched last: [valid, fid, x1, x2, x3, flags, enabled]
    trace,                \* the collaborator calls the last action made, in order
    sp_left_by            \* history: NONE before the first entry, RUNNING while the
                          \* secure world has control, else the kind of call on which
                          \* it gave control up last: COMPLETE or OTHER

vars == <<DEBUG, NDEBUG, ep_info, spm_ctx, sp_init_in_progress, ns_cpu_ctx,
          cm_context, next_eret_context, el1_sysregs, xlat, bl32_init, c_stack,
          running, boot, setup_rc, entry_rc, init_rc, smc, trace, sp_left_by>>

----------------------------------------------------------------------------
(* Bounds of the model. *)

\* result codes a completion call carries are 0..MaxResult
MaxResult == 1
\* attribute words of memory-attributes-set are 0..MaxAttr
MaxAttr == 8
\* memory-attributes-set asks for n pages at page boundary n + 1, n in 0..MaxPages
MaxPages == 1
\* a communicate call has the arguments (k, k + 1, k + 2), k in 0..MaxArg
MaxArg == 0
\* at most MaxFrames synchronous entries are blocked at once
MaxFrames == 2

----------------------------------------------------------------------------
(* Program constants. *)

SECURE == "SECURE"
NON_SECURE == "NON_SECURE"
SMC_FROM_SECURE == SECURE
SMC_FROM_NON_SECURE == NON_SECURE

\* Function identifiers: distinct codes (the header that encodes them is not
\* part of the sources; only their being distinct matters to the dispatcher).
SP_EVENT_COMPLETE_AARCH64 == 97
SP_MEM_ATTRIBUTES_SET_AARCH64 == 101
SP_COMMUNICATE_AARCH32 == 65
SP_COMMUNICATE_AARCH64 == 66
\* an identifier the dispatcher has no case for
SP_OTHER_FID == 99

SMC_UNK == -1
PAGE_SIZE == 4096

\* mmap_attr_t flags, as a set of flag names
MT_MEMORY == "MT_MEMORY"
MT_SECURE == "MT_SECURE"
MT_RW == "MT_RW"
MT_EXECUTE_NEVER == "MT_EXECUTE_NEVER"

\* context pointers
NULL == "NULL"
SpmCpuCtx == "&spm_ctx.cpu_ctx"
NsCpuCtx == "&ns_cpu_ctx"

\* "no value yet" for the recorded return values
NoRc == -2

Worlds == {SECURE, NON_SECURE}
Fids == {SP_EVENT_COMPLETE_AARCH64, SP_MEM_ATTRIBUTES_SET_AARCH64,
         SP_COMMUNICATE_AARCH32, SP_COMMUNICATE_AARCH64, SP_OTHER_FID}
Results == 0..MaxResult

\* the status codes the translation collaborator answers with
XLAT_OK == 0
XLAT_EINVAL == -22
XlatStatuses == {XLAT_OK, XLAT_EINVAL}

\* this core's identifier (the primary core)
plat_my_core_pos == 0

\* the program counter of a valid secure image
SP_ENTRY_PC == 1

----------------------------------------------------------------------------
(* Values. *)

NullEp == [null |-> TRUE, pc |-> 0, spsr |-> "none", attr |-> "none", args |-> "none"]
BootEp(pc) == [null |-> FALSE, pc |-> pc, spsr |-> "boot", attr |-> "boot", args |-> "boot"]

NoSysregs == [world |-> "NONE", v |-> 0]
NoEl3State == [from |-> "none", world |-> "NONE", v |-> 0]
ZeroCtx == [gpregs |-> <<0, 0, 0, 0>>, el1_sysregs |-> NoSysregs, el3_state |-> NoEl3State]

NoSmc == [valid |-> FALSE, fid |-> 0, x1 |-> 0, x2 |-> 0, x3 |-> 0,
          flags |-> "NONE", enabled |-> FALSE]
NoXlatReq == [valid |-> FALSE, base_va |-> 0, size |-> 0, attributes |-> {}, rc |-> 0]

Halted(m) == m.running \in {"PANIC", "UNDEFINED"}

\* the machine record of the current state; status is the answer the
\* translation collaborator will give if it is asked during the call
Machine(status) ==
    [DEBUG |-> DEBUG, NDEBUG |-> NDEBUG, ep_info |-> ep_info, spm_ctx |-> spm_ctx,
     sp_init_in_progress |-> sp_init_in_progress, ns_cpu_ctx |-> ns_cpu_ctx,
     cm_context |-> cm_context, next_eret_context |-> next_eret_context,
     el1_sysregs |-> el1_sysregs, xlat |-> [xlat EXCEPT !.last = NoXlatReq],
     bl32_init |-> bl32_init,
     c_stack |-> c_stack, running |-> running, boot |-> boot,
     setup_rc |-> setup_rc, entry_rc |-> entry_rc, init_rc |-> init_rc,
     status |-> status, trace |-> <<>>]

\* one collaborator call, logged
Log(m, op, arg) == [m EXCEPT !.trace = Append(@, [op |-> op, arg |-> arg])]

----------------------------------------------------------------------------
(* assert(), and the collaborators: context management, SMC_RET, the low   *)
(* level transfer primitives.                                              *)

\* assert(e): aborts when e is false, unless the build compiles it out
assert(m, e) ==
    IF Halted(m) \/ m.NDEBUG \/ e THEN m ELSE [m EXCEPT !.running = "PANIC"]

cm_get_context(m, world) == m.cm_context[world]

Deref(m, ptr) == IF ptr = SpmCpuCtx THEN m.spm_ctx.cpu_ctx ELSE m.ns_cpu_ctx

\* a write through a context pointer; through NULL it is undefined
Store(m, ptr, c) ==
    IF Halted(m) THEN m
    ELSE IF ptr = SpmCpuCtx THEN [m EXCEPT !.spm_ctx.cpu_ctx = c]
    ELSE IF ptr = NsCpuCtx THEN [m EXCEPT !.ns_cpu_ctx = c]
    ELSE [m EXCEPT !.running = "UNDEFINED"]

cm_set_context(m, ptr, world) ==
    IF Halted(m) THEN m
    ELSE Log([m EXCEPT !.cm_context[world] = ptr], "cm_set_context", world)

\* the live EL1 system registers go to the world's bank
cm_el1_sysregs_context_save(m, world) ==
    IF Halted(m) THEN m
    ELSE LET ptr == cm_get_context(m, world)
         IN Log(Store(m, ptr, [Deref(m, ptr) EXCEPT !.el1_sysregs = m.el1_sysregs]),
                "cm_el1_sysregs_context_save", world)

\* the world's bank goes to the live EL1 system registers
cm_el1_sysregs_context_restore(m, world) ==
    IF Halted(m) THEN m
    ELSE LET ptr == cm_get_context(m, world)
         IN IF ptr = NULL THEN [m EXCEPT !.running = "UNDEFINED"]
            ELSE Log([m EXCEPT !.el1_sysregs = Deref(m, ptr).el1_sysregs],
                     "cm_el1_sysregs_context_restore", world)

cm_set_next_eret_context(m, world) ==
    IF Halted(m) THEN m
    ELSE Log([m EXCEPT !.next_eret_context = world], "cm_set_next_eret_context", world)

\* ELR_EL3/SPSR_EL3 of the world's bank := the given return state
cm_set_elr_spsr_el3(m, world, el1) ==
    IF Halted(m) THEN m
    ELSE LET ptr == cm_get_context(m, world)
         IN Log(Store(m, ptr, [Deref(m, ptr) EXCEPT
                    !.el3_state = [from |-> "el1", world |-> el1.world, v |-> el1.v]]),
                "cm_set_elr_spsr_el3", world)

\* the context of the descriptor's world is seeded from the descriptor
cm_init_my_context(m, ep) ==
    IF Halted(m) THEN m
    ELSE IF ep.null THEN [m EXCEPT !.running = "UNDEFINED"]
    ELSE Log(Store(m, cm_get_context(m, SECURE),
                   [gpregs |-> <<0, 0, 0, 0>>,
                    el1_sysregs |-> [world |-> SECURE, v |-> 0],
                    el3_state |-> [from |-> "ep", world |-> SECURE, v |-> ep.pc]]),
             "cm_init_my_context", SECURE)

\* SMC_RET1(handle, x0): x0 of the context behind handle, and back to the
\* world of the next ERET
SMC_RET1(m, handle, x0) ==
    IF Halted(m) THEN m
    ELSE LET m1 == Store(m, handle, [Deref(m, handle) EXCEPT !.gpregs[1] = x0])
             m2 == Log(m1, "SMC_RET1", handle)
         IN IF Halted(m2) THEN m2 ELSE [m2 EXCEPT !.running = m2.next_eret_context]

SMC_RET4(m, handle, x0, x1, x2, x3) ==
    IF Halted(m) THEN m
    ELSE LET m1 == Store(m, handle, [Deref(m, handle) EXCEPT !.gpregs = <<x0, x1, x2, x3>>])
             m2 == Log(m1, "SMC_RET4", handle)
         IN IF Halted(m2) THEN m2 ELSE [m2 EXCEPT !.running = m2.next_eret_context]

\* secure_partition_prepare_context(): the translation registers of the
\* secure bank are recomputed; the model keeps no such register
secure_partition_prepare_context(m) ==
    IF Halted(m) THEN m ELSE Log(m, "secure_partition_prepare_context", SECURE)

\* secure_partition_setup(): the secure address space is built
secure_partition_setup(m) ==
    IF Halted(m) THEN m
    ELSE Log([m EXCEPT !.xlat.built = TRUE], "secure_partition_setup", SECURE)

bl31_register_bl32_init(m, func) ==
    IF Halted(m) THEN m
    ELSE Log([m EXCEPT !.bl32_init = func], "bl31_register_bl32_init", func)

\* change_mem_attributes(): the request is recorded, the collaborator's
\* status is the result
change_mem_attributes(m, base_va, size, attributes) ==
    IF Halted(m) THEN m
    ELSE Log([m EXCEPT !.xlat.last = [valid |-> TRUE, base_va |-> base_va, size |-> size,
                                      attributes |-> attributes, rc |-> m.status]],
             "change_mem_attributes", SECURE)

----------------------------------------------------------------------------
(* spm_main.c *)

\* lines 55-66
spm_setup_next_eret_into_sel0(m, secure_context) ==
    LET m1 == assert(m, secure_context = cm_get_context(m, SECURE))
    IN cm_set_elr_spsr_el3(m1, SECURE, m1.el1_sysregs)

\* a slip: sp_init_in_progress is left set when spm_init returns
spm_init_return_noclearflag(m, rc) ==
    LET m1 == assert(m, rc = 0)
    IN IF Halted(m1) THEN m1
       ELSE [m1 EXCEPT !.init_rc = rc, !.running = "BL31", !.boot = "init_done"]

\* lines 151-153: spm_init once its synchronous entry has returned rc
spm_init_return(m, rc) ==
    LET m1 == assert(m, rc = 0)
    IN IF Halted(m1) THEN m1
       ELSE [m1 EXCEPT !.sp_init_in_progress = 0, !.init_rc = rc,
                       !.running = "BL31", !.boot = "init_done"]

\* a slip: the frame is cleared in no build
spm_synchronous_sp_entry_return_noclear(m, rc) ==
    IF Halted(m) THEN m
    ELSE spm_init_return([m EXCEPT !.entry_rc = rc], rc)

\* lines 92-96: spm_synchronous_sp_entry once spm_secure_partition_enter has
\* returned rc; its caller is spm_init
spm_synchronous_sp_entry_return(m, rc) ==
    IF Halted(m) THEN m
    ELSE LET m1 == IF m.DEBUG THEN [m EXCEPT !.spm_ctx.c_rt_ctx = 0] ELSE m
         IN spm_init_return([m1 EXCEPT !.entry_rc = rc], rc)

\* spm_secure_partition_exit(c_rt_ctx, ret): the C runtime is unwound to the
\* frame at c_rt_ctx and the enter that captured it returns ret; a frame that
\* is not a live one is undefined
spm_secure_partition_exit(m, c_rt_ctx, ret) ==
    IF Halted(m) THEN m
    ELSE IF c_rt_ctx \in 1..Len(m.c_stack)
    THEN spm_synchronous_sp_entry_return(
             Log([m EXCEPT !.c_stack = SubSeq(@, 1, c_rt_ctx - 1)],
                 "spm_secure_partition_exit", SECURE), ret)
    ELSE [m EXCEPT !.running = "UNDEFINED"]

\* spm_secure_partition_enter(&c_rt_ctx): the C runtime frame is pushed, its
\* address stored through the pointer, and control leaves for the world of
\* the next ERET
spm_secure_partition_enter(m) ==
    IF Halted(m) THEN m
    ELSE Log([m EXCEPT !.c_stack = Append(@, [caller |-> "spm_init"]),
                       !.spm_ctx.c_rt_ctx = Len(m.c_stack) + 1,
                       !.running = m.next_eret_context],
             "spm_secure_partition_enter", SECURE)

\* lines 76-91: spm_synchronous_sp_entry up to the transfer
spm_synchronous_sp_entry(m) ==
    LET m1 == assert(m, m.spm_ctx.c_rt_ctx = 0)
        m2 == assert(m1, cm_get_context(m1, SECURE) = SpmCpuCtx)
        m3 == secure_partition_prepare_context(m2)
        m4 == cm_el1_sysregs_context_restore(m3, SECURE)
        m5 == cm_set_next_eret_context(m4, SECURE)
    IN spm_secure_partition_enter(m5)

\* a slip: the result code is not handed on
spm_synchronous_sp_exit_noret(m, ret) ==
    LET m1 == assert(m, cm_get_context(m, SECURE) = SpmCpuCtx)
        m2 == cm_el1_sysregs_context_save(m1, SECURE)
        m3 == assert(m2, m2.spm_ctx.c_rt_ctx # 0)
    IN spm_secure_partition_exit(m3, m3.spm_ctx.c_rt_ctx, 0)

\* lines 109-121
spm_synchronous_sp_exit(m, ret) ==
    LET m1 == assert(m, cm_get_context(m, SECURE) = SpmCpuCtx)
        m2 == cm_el1_sysregs_context_save(m1, SECURE)
        m3 == assert(m2, m2.spm_ctx.c_rt_ctx # 0)
    IN spm_secure_partition_exit(m3, m3.spm_ctx.c_rt_ctx, ret)

\* a slip: the flag is not raised before the first entry
spm_init_noflag(m) ==
    LET spm_entry_point_info == m.ep_info
        m1 == assert(m, ~spm_entry_point_info.null)
        m2 == cm_init_my_context(m1, spm_entry_point_info)
    IN spm_synchronous_sp_entry(m2)

\* lines 130-150: spm_init up to the transfer
spm_init(m) ==
    LET spm_entry_point_info == m.ep_info
        m1 == assert(m, ~spm_entry_point_info.null)
        m2 == cm_init_my_context(m1, spm_entry_point_info)
        m3 == IF Halted(m2) THEN m2 ELSE [m2 EXCEPT !.sp_init_in_progress = 1]
    IN spm_synchronous_sp_entry(m3)

\* a slip: the secure context is not made the active secure context
spm_init_spm_ep_state_noctx(m, pc) ==
    LET m1 == assert(assert(m, ~m.ep_info.null), pc # 0)
        ep_attr == {"SECURE", "EP_ST_ENABLE"}
    IN IF Halted(m1) THEN m1
       ELSE [m1 EXCEPT !.ep_info = [null |-> FALSE, pc |-> pc, spsr |-> "SPSR_64(EL0,SP_EL0)",
                                    attr |-> ep_attr, args |-> "zero"]]

\* lines 161-186
spm_init_spm_ep_state(m, pc) ==
    LET m1 == assert(assert(m, ~m.ep_info.null), pc # 0)
        m2 == cm_set_context(m1, SpmCpuCtx, SECURE)
        \* EP_EE_BIG follows SCTLR_EL3.EE; the monitor runs little-endian here
        ep_attr == {"SECURE", "EP_ST_ENABLE"}
    IN IF Halted(m2) THEN m2
       ELSE [m2 EXCEPT !.ep_info = [null |-> FALSE, pc |-> pc, spsr |-> "SPSR_64(EL0,SP_EL0)",
                                    attr |-> ep_attr, args |-> "zero"]]

\* a slip: the program counter of the descriptor is not looked at
spm_setup_nopc(m) ==
    LET spm_ep_info == m.ep_info
    IN IF spm_ep_info.null THEN [m EXCEPT !.setup_rc = 1]
       ELSE LET m1 == spm_init_spm_ep_state(m, spm_ep_info.pc)
                m2 == secure_partition_setup(m1)
                m3 == bl31_register_bl32_init(m2, "spm_init")
            IN IF Halted(m3) THEN m3 ELSE [m3 EXCEPT !.setup_rc = 0]

\* a slip: the callback is registered before the address space is built
spm_setup_registerfirst(m) ==
    LET spm_ep_info == m.ep_info
    IN IF spm_ep_info.null THEN [m EXCEPT !.setup_rc = 1]
       ELSE IF spm_ep_info.pc = 0 THEN [m EXCEPT !.setup_rc = 1]
       ELSE LET m1 == spm_init_spm_ep_state(m, spm_ep_info.pc)
                m2 == bl31_register_bl32_init(m1, "spm_init")
                m3 == secure_partition_setup(m2)
            IN IF Halted(m3) THEN m3 ELSE [m3 EXCEPT !.setup_rc = 0]

\* lines 193-235
spm_setup(m) ==
    LET spm_ep_info == m.ep_info
    IN IF spm_ep_info.null THEN [m EXCEPT !.setup_rc = 1]
       ELSE IF spm_ep_info.pc = 0 THEN [m EXCEPT !.setup_rc = 1]
       ELSE LET m1 == spm_init_spm_ep_state(m, spm_ep_info.pc)
                m2 == secure_partition_setup(m1)
                m3 == bl31_register_bl32_init(m2, "spm_init")
            IN IF Halted(m3) THEN m3 ELSE [m3 EXCEPT !.setup_rc = 0]

\* a slip: read/write follows bit 0 alone
smc_attr_to_mmap_attr_bit0(attributes) ==
    LET tf_attr == {MT_MEMORY, MT_SECURE}
        rw == IF (attributes % 2) = 1 THEN {MT_RW} ELSE {}
        xn == IF ((attributes \div 4) % 2) = 1 THEN {MT_EXECUTE_NEVER} ELSE {}
    IN tf_attr \cup rw \cup xn

\* a slip: execute-never is read one bit too high
smc_attr_to_mmap_attr_shift3(attributes) ==
    LET tf_attr == {MT_MEMORY, MT_SECURE}
        rw == IF (attributes % 4) = 1 THEN {MT_RW} ELSE {}
        xn == IF ((attributes \div 8) % 2) = 1 THEN {MT_EXECUTE_NEVER} ELSE {}
    IN tf_attr \cup rw \cup xn

\* lines 244-259
smc_attr_to_mmap_attr(attributes) ==
    LET tf_attr == {MT_MEMORY, MT_SECURE}
        rw == IF (attributes % 4) = 1 THEN {MT_RW} ELSE {}
        xn == IF ((attributes \div 4) % 2) = 1 THEN {MT_EXECUTE_NEVER} ELSE {}
    IN tf_attr \cup rw \cup xn

\* a slip: the page count is taken for the size in bytes
spm_memory_attributes_smc_handler_nopagesize(m, page_address, pages_count, smc_attributes) ==
    change_mem_attributes(m, page_address, pages_count, smc_attr_to_mmap_attr(smc_attributes))

\* lines 261-279; the status returned is m.xlat.last.rc of the result
spm_memory_attributes_smc_handler(m, page_address, pages_count, smc_attributes) ==
    LET base_va == page_address
        size == pages_count * PAGE_SIZE
        attributes == smc_attr_to_mmap_attr(smc_attributes)
    IN change_mem_attributes(m, base_va, size, attributes)

\* a slip: the next ERET is not pointed at the normal world
sp_event_complete_to_ns_nonext(m, x1) ==
    LET ns_cpu_context == cm_get_context(m, NON_SECURE)
        m4 == assert(m, ns_cpu_context # NULL)
        m5 == cm_el1_sysregs_context_restore(m4, NON_SECURE)
    IN SMC_RET1(m5, ns_cpu_context, x1)

\* lines 320-329: the result of an earlier request goes to the normal world
sp_event_complete_to_ns(m, x1) ==
    LET ns_cpu_context == cm_get_context(m, NON_SECURE)
        m4 == assert(m, ns_cpu_context # NULL)
        m5 == cm_el1_sysregs_context_restore(m4, NON_SECURE)
        m6 == cm_set_next_eret_context(m5, NON_SECURE)
    IN SMC_RET1(m6, ns_cpu_context, x1)

\* a slip: sp_init_in_progress is not looked at
sp_event_complete_noflag(m, x1, handle) ==
    LET m1 == assert(m, handle = cm_get_context(m, SECURE))
        m2 == cm_el1_sysregs_context_save(m1, SECURE)
        m3 == spm_setup_next_eret_into_sel0(m2, handle)
    IN sp_event_complete_to_ns(m3, x1)

\* a slip: the result is returned through the caller's handle
sp_event_complete_tohandle(m, x1, handle) ==
    LET m1 == assert(m, handle = cm_get_context(m, SECURE))
        m2 == cm_el1_sysregs_context_save(m1, SECURE)
        m3 == spm_setup_next_eret_into_sel0(m2, handle)
    IN IF m3.sp_init_in_progress # 0
       THEN spm_synchronous_sp_exit(m3, x1)
       ELSE SMC_RET1(m3, handle, x1)

\* lines 299-329: case SP_EVENT_COMPLETE_AARCH64
sp_event_complete(m, x1, handle) ==
    LET m1 == assert(m, handle = cm_get_context(m, SECURE))
        m2 == cm_el1_sysregs_context_save(m1, SECURE)
        m3 == spm_setup_next_eret_into_sel0(m2, handle)
    IN IF m3.sp_init_in_progress # 0
       THEN spm_synchronous_sp_exit(m3, x1)
       ELSE sp_event_complete_to_ns(m3, x1)

\* lines 331-333: case SP_MEM_ATTRIBUTES_SET_AARCH64
sp_mem_attributes_set(m, x1, x2, x3, handle) ==
    LET m1 == spm_memory_attributes_smc_handler(m, x1, x2, x3)
    IN SMC_RET1(m1, handle, m1.xlat.last.rc)

\* a slip: the second and third return values change places
sp_communicate_swapped(m, smc_fid, x2, x3) ==
    LET m1 == cm_el1_sysregs_context_save(m, NON_SECURE)
        m2 == assert(m1, SpmCpuCtx = cm_get_context(m1, SECURE))
        m3 == cm_el1_sysregs_context_restore(m2, SECURE)
        m4 == cm_set_next_eret_context(m3, SECURE)
    IN SMC_RET4(m4, SpmCpuCtx, smc_fid, x3, x2, plat_my_core_pos)

\* a slip: the secure bank is restored before the non-secure bank is saved
sp_communicate_restorefirst(m, smc_fid, x2, x3) ==
    LET m1 == cm_el1_sysregs_context_restore(m, SECURE)
        m2 == cm_el1_sysregs_context_save(m1, NON_SECURE)
        m3 == assert(m2, SpmCpuCtx = cm_get_context(m2, SECURE))
        m4 == cm_set_next_eret_context(m3, SECURE)
    IN SMC_RET4(m4, SpmCpuCtx, smc_fid, x2, x3, plat_my_core_pos)

\* a slip: the secure bank is not restored
sp_communicate_norestore(m, smc_fid, x2, x3) ==
    LET m1 == cm_el1_sysregs_context_save(m, NON_SECURE)
        m2 == assert(m1, SpmCpuCtx = cm_get_context(m1, SECURE))
        m4 == cm_set_next_eret_context(m2, SECURE)
    IN SMC_RET4(m4, SpmCpuCtx, smc_fid, x2, x3, plat_my_core_pos)

\* lines 339-358: case SP_COMMUNICATE_AARCH32, SP_COMMUNICATE_AARCH64
sp_communicate(m, smc_fid, x2, x3) ==
    LET m1 == cm_el1_sysregs_context_save(m, NON_SECURE)
        m2 == assert(m1, SpmCpuCtx = cm_get_context(m1, SECURE))
        m3 == cm_el1_sysregs_context_restore(m2, SECURE)
        m4 == cm_set_next_eret_context(m3, SECURE)
    IN SMC_RET4(m4, SpmCpuCtx, smc_fid, x2, x3, plat_my_core_pos)

\* a slip: the communicate identifiers are taken from either origin
spm_smc_handler_anyorigin(m, smc_fid, x1, x2, x3, handle, flags) ==
    LET ns == flags
    IN IF ns = SMC_FROM_SECURE /\ smc_fid = SP_EVENT_COMPLETE_AARCH64
       THEN sp_event_complete(m, x1, handle)
       ELSE IF ns = SMC_FROM_SECURE /\ smc_fid = SP_MEM_ATTRIBUTES_SET_AARCH64
       THEN sp_mem_attributes_set(m, x1, x2, x3, handle)
       ELSE IF smc_fid \in {SP_COMMUNICATE_AARCH32, SP_COMMUNICATE_AARCH64}
       THEN sp_communicate(m, smc_fid, x2, x3)
       ELSE SMC_RET1(m, handle, SMC_UNK)

\* lines 282-366
spm_smc_handler(m, smc_fid, x1, x2, x3, handle, flags) ==
    LET ns == flags
    IN IF ns = SMC_FROM_SECURE /\ smc_fid = SP_EVENT_COMPLETE_AARCH64
       THEN sp_event_complete(m, x1, handle)
       ELSE IF ns = SMC_FROM_SECURE /\ smc_fid = SP_MEM_ATTRIBUTES_SET_AARCH64
       THEN sp_mem_attributes_set(m, x1, x2, x3, handle)
       ELSE IF ns # SMC_FROM_SECURE
               /\ smc_fid \in {SP_COMMUNICATE_AARCH32, SP_COMMUNICATE_AARCH64}
       THEN sp_communicate(m, smc_fid, x2, x3)
       ELSE SMC_RET1(m, handle, SMC_UNK)

----------------------------------------------------------------------------
(* The state machine. *)

Init ==
    /\ DEBUG \in BOOLEAN
    /\ NDEBUG \in BOOLEAN
    /\ ep_info \in {NullEp, BootEp(0), BootEp(SP_ENTRY_PC)}
    /\ spm_ctx = [c_rt_ctx |-> 0, cpu_ctx |-> ZeroCtx]
    /\ sp_init_in_progress = 0
    /\ ns_cpu_ctx = ZeroCtx
    /\ cm_context = [w \in Worlds |-> IF w = SECURE THEN NULL ELSE NsCpuCtx]
    /\ next_eret_context = "NONE"
    /\ el1_sysregs = NoSysregs
    /\ xlat = [built |-> FALSE, last |-> NoXlatReq]
    /\ bl32_init = NULL
    /\ c_stack = <<>>
    /\ running = "BL31"
    /\ boot = "cold"
    /\ setup_rc = NoRc
    /\ entry_rc = NoRc
    /\ init_rc = NoRc
    /\ smc = NoSmc
    /\ trace = <<>>
    /\ sp_left_by = "NONE"

\* the machine record m becomes the next state
Commit(m) ==
    /\ UNCHANGED <<DEBUG, NDEBUG>>
    /\ ep_info' = m.ep_info
    /\ spm_ctx' = m.spm_ctx
    /\ sp_init_in_progress' = m.sp_init_in_progress
    /\ ns_cpu_ctx' = m.ns_cpu_ctx
    /\ cm_context' = m.cm_context
    /\ next_eret_context' = m.next_eret_context
    /\ el1_sysregs' = m.el1_sysregs
    /\ xlat' = m.xlat
    /\ bl32_init' = m.bl32_init
    /\ c_stack' = m.c_stack
    /\ running' = m.running
    /\ boot' = m.boot
    /\ setup_rc' = m.setup_rc
    /\ entry_rc' = m.entry_rc
    /\ init_rc' = m.init_rc
    /\ trace' = m.trace

\* the arguments (x1, x2, x3) a call of identifier fid is made with
Args(fid) ==
    IF fid = SP_MEM_ATTRIBUTES_SET_AARCH64
    THEN {<<(n + 1) * PAGE_SIZE, n, a>> : n \in 0..MaxPages, a \in 0..MaxAttr}
    ELSE IF fid = SP_EVENT_COMPLETE_AARCH64
    THEN {<<r, 0, 0>> : r \in Results}
    ELSE {<<k, k + 1, k + 2>> : k \in 0..MaxArg}
Statuses(fid) == IF fid = SP_MEM_ATTRIBUTES_SET_AARCH64 THEN XlatStatuses ELSE {XLAT_OK}

\* the world that ran has changed its EL1 system registers by the time it
\* calls: their value v alternates between the two values 0 and 1
WorldRan(m, world) ==
    [m EXCEPT !.el1_sysregs = [world |-> world, v |-> 1 - m.el1_sysregs.v]]

\* the runtime-service framework while the service is registered: the call
\* of a world goes to spm_smc_handler with the caller's context as handle
std_svc_smc_handler(m, world, smc_fid, x1, x2, x3) ==
    LET m0 == WorldRan(m, world)
    IN spm_smc_handler(m0, smc_fid, x1, x2, x3, cm_get_context(m0, world), world)

\* the runtime-service framework when spm_setup failed: no handler is
\* registered and the caller is answered SMC_UNK
std_svc_unregistered(m, world) ==
    LET m0 == WorldRan(m, world)
    IN SMC_RET1(m0, cm_get_context(m0, world), SMC_UNK)

\* BL31 leaves for the normal world once the boot flow is over
bl31_exit_to_normal_world(m) ==
    LET m1 == cm_set_next_eret_context(m, NON_SECURE)
    IN [m1 EXCEPT !.el1_sysregs = [world |-> NON_SECURE, v |-> 0],
                  !.running = NON_SECURE, !.boot = "runtime"]

\* the history of the secure world over a step of the boot flow
BootTracked ==
    sp_left_by' = IF running' = SECURE THEN "RUNNING" ELSE sp_left_by

\* the history of the secure world over the call fid made by world
SmcTracked(world, fid) ==
    sp_left_by' = IF running' = SECURE THEN "RUNNING"
                  ELSE IF world # SECURE THEN sp_left_by
                  ELSE IF fid = SP_EVENT_COMPLETE_AARCH64 THEN "COMPLETE"
                  ELSE "OTHER"

\* BL31 sets the service up
Setup ==
    /\ running = "BL31" /\ boot = "cold"
    /\ Commit([spm_setup(Machine(XLAT_OK)) EXCEPT !.boot = "setup_done"])
    /\ UNCHANGED smc
    /\ BootTracked

\* BL31 invokes the deferred init callback, once
Bl32Init ==
    /\ running = "BL31" /\ boot = "setup_done" /\ bl32_init = "spm_init"
    /\ Commit(spm_init([Machine(XLAT_OK) EXCEPT !.boot = "in_init"]))
    /\ UNCHANGED smc
    /\ BootTracked

Bl31Exit ==
    /\ running = "BL31"
    /\ boot = "init_done" \/ (boot = "setup_done" /\ bl32_init = NULL)
    /\ Commit(bl31_exit_to_normal_world(Machine(XLAT_OK)))
    /\ UNCHANGED smc
    /\ BootTracked

\* the world that runs makes a call
Smc(world) ==
    /\ running = world /\ setup_rc = 0
    /\ \E fid \in Fids :
       \E x \in Args(fid), status \in Statuses(fid) :
          /\ Commit(std_svc_smc_handler(Machine(status), world, fid, x[1], x[2], x[3]))
          /\ smc' = [valid |-> TRUE, fid |-> fid, x1 |-> x[1], x2 |-> x[2], x3 |-> x[3],
                     flags |-> world, enabled |-> TRUE]
          /\ SmcTracked(world, fid)

SecureSmc == Smc(SECURE)

NonSecureSmc == Smc(NON_SECURE)

\* a call after spm_setup failed
UnregisteredSmc ==
    /\ running = NON_SECURE /\ setup_rc # 0
    /\ \E fid \in Fids :
       \E x \in Args(fid) :
          /\ Commit(std_svc_unregistered(Machine(XLAT_OK), NON_SECURE))
          /\ smc' = [valid |-> TRUE, fid |-> fid, x1 |-> x[1], x2 |-> x[2], x3 |-> x[3],
                     flags |-> NON_SECURE, enabled |-> FALSE]
          /\ SmcTracked(NON_SECURE, fid)

Next == Setup \/ Bl32Init \/ Bl31Exit \/ SecureSmc \/ NonSecureSmc \/ UnregisteredSmc

Spec == Init /\ [][Next]_vars

\* the deferred init callback is invoked again while the secure world is
\* still inside the boot entry (a caller that breaks the one-shot contract)
Bl32InitAgain ==
    /\ running = SECURE /\ boot = "in_init" /\ bl32_init = "spm_init"
    /\ Len(c_stack) < MaxFrames
    /\ Commit(spm_init(Machine(XLAT_OK)))
    /\ UNCHANGED smc
    /\ BootTracked

NextReentrant == Next \/ Bl32InitAgain

SpecReentrant == Init /\ [][NextReentrant]_vars

\* the secure partition makes a completion call: the steps of SecureSmc
\* whose call is SP_EVENT_COMPLETE_AARCH64
SecureCompletes ==
    /\ running = SECURE /\ setup_rc = 0
    /\ smc'.valid /\ smc'.flags = SECURE /\ smc'.fid = SP_EVENT_COMPLETE_AARCH64

\* the secure partition can make a completion call: what
\* ENABLED <<SecureCompletes>>_vars comes to
SecureHasControl == running = SECURE /\ setup_rc = 0

\* the secure partition, whenever it has control, makes a completion call
\* in the end, after finitely many other calls: weak fairness of
\* SecureCompletes, written out
SecureCompletesInTheEnd ==
    []<>(~SecureHasControl) \/ []<><<SecureCompletes>>_vars

SpecLive == Spec /\ SecureCompletesInTheEnd

----------------------------------------------------------------------------
(* Reading the log of the last action. *)

HasOp(tr, op) == \E i \in 1..Len(tr) : tr[i].op = op
Touches(tr, arg) == \E i \in 1..Len(tr) : tr[i].arg = arg

\* the last action was a call that went through spm_synchronous_sp_exit
ExitedLast == smc.valid /\ HasOp(trace, "spm_secure_partition_exit")

\* an entry is blocked: a frame captured by an enter that has not returned
Blocked == c_stack # <<>>

\* spm_init has been invoked
InitInvoked == bl32_init = "spm_init" /\ boot \notin {"cold", "setup_done"}

----------------------------------------------------------------------------
(* C1 *)

\* C1 as stated: in every reachable state the pending frame c_rt_ctx is
\* non-empty if and only if a synchronous entry is blocked, in any build.
C1_Original == (spm_ctx.c_rt_ctx # 0) <=> Blocked

\* C1 amended: while an entry is blocked the pending frame is the blocked
\* frame; in DEBUG builds the frame is non-empty if and only if an entry is
\* blocked; in other builds it is empty before the first entry and keeps the
\* address of the frame from then on, also after the entry has returned.
C1_Amended ==
    /\ Blocked => spm_ctx.c_rt_ctx = Len(c_stack)
    /\ DEBUG => ((spm_ctx.c_rt_ctx # 0) <=> Blocked)
    /\ ~DEBUG => ((spm_ctx.c_rt_ctx # 0) <=> InitInvoked)

C1_Witness ==
    /\ ~DEBUG /\ entry_rc # NoRc /\ ~Blocked /\ spm_ctx.c_rt_ctx # 0

----------------------------------------------------------------------------
(* C2 *)

\* C2 as stated: an entry ended by synchronous-exit(ctx, R) returns exactly R
\* and the pending frame is empty once the entry has returned.
C2_Original == ExitedLast => (entry_rc = smc.x1 /\ spm_ctx.c_rt_ctx = 0)

\* C2 amended: an entry ended by synchronous-exit(ctx, R) returns exactly R;
\* once it has returned the pending frame is empty in DEBUG builds and still
\* holds the address of the returned frame in the other builds.
C2_Amended ==
    ExitedLast => /\ entry_rc = smc.x1
                  /\ ~Blocked
                  /\ DEBUG => spm_ctx.c_rt_ctx = 0
                  /\ ~DEBUG => spm_ctx.c_rt_ctx = 1

C2_Witness == ExitedLast /\ smc.x1 = 1 /\ entry_rc = 1 /\ DEBUG

----------------------------------------------------------------------------
(* C3 *)

\* C3: a synchronous entry invoked while the frame of an earlier, unresolved
\* entry is pending aborts and leaves that frame as it was.
C3_Claim ==
    [][(Blocked /\ spm_ctx.c_rt_ctx # 0 /\ running = SECURE
        /\ trace' # <<>> /\ trace'[1].op = "cm_init_my_context")
       => (running' = "PANIC" /\ spm_ctx'.c_rt_ctx = spm_ctx.c_rt_ctx)]_vars

----------------------------------------------------------------------------
(* C4 *)

\* C4: when setup finds no descriptor or a zero program counter it returns
\* failure, prepares no context and registers no init callback; every call
\* afterwards is answered SMC_UNK to its caller without a world switch.
C4_SetupFailureDisables ==
    ((ep_info.null \/ ep_info.pc = 0) /\ boot # "cold") =>
        /\ setup_rc = 1
        /\ bl32_init = NULL
        /\ cm_context[SECURE] = NULL
        /\ spm_ctx = [c_rt_ctx |-> 0, cpu_ctx |-> ZeroCtx]
        /\ ~xlat.built
        /\ ep_info \in {NullEp, BootEp(0)}
        /\ sp_init_in_progress = 0 /\ c_stack = <<>>
        /\ running \in {"BL31", NON_SECURE}
        /\ smc.valid =>
              /\ ns_cpu_ctx.gpregs[1] = SMC_UNK
              /\ running = smc.flags /\ next_eret_context = smc.flags
              /\ trace = <<[op |-> "SMC_RET1", arg |-> NsCpuCtx]>>

C4_Witness ==
    /\ ep_info = BootEp(0) /\ setup_rc = 1
    /\ smc.valid /\ smc.fid = SP_COMMUNICATE_AARCH64 /\ ns_cpu_ctx.gpregs[1] = SMC_UNK

----------------------------------------------------------------------------
(* C5 *)

\* a step in which the secure world makes a completion call
CompletionStep ==
    /\ running = SECURE
    /\ smc'.valid /\ smc'.flags = SECURE /\ smc'.fid = SP_EVENT_COMPLETE_AARCH64

\* C5: a secure completion call that arrives while sp_init_in_progress is set
\* goes to spm_synchronous_sp_exit with the call's result code; the
\* non-secure context is not restored, not made the next ERET target and is
\* not written.
C5_InitCompletionExits ==
    [][(CompletionStep /\ sp_init_in_progress # 0) =>
          /\ HasOp(trace', "spm_secure_partition_exit")
          /\ entry_rc' = smc'.x1
          /\ ~Touches(trace', NON_SECURE) /\ ~Touches(trace', NsCpuCtx)
          /\ ~HasOp(trace', "SMC_RET1")
          /\ ns_cpu_ctx' = ns_cpu_ctx
          /\ next_eret_context' = SECURE
          /\ el1_sysregs'.world = SECURE
          /\ running' # NON_SECURE]_vars

C5_Witness ==
    /\ ExitedLast /\ smc.fid = SP_EVENT_COMPLETE_AARCH64 /\ smc.flags = SECURE
    /\ entry_rc = smc.x1 /\ running = "BL31" /\ ns_cpu_ctx = ZeroCtx

----------------------------------------------------------------------------
(* C6 *)

\* C6: a secure completion call carrying R that arrives after a communicate
\* call, sp_init_in_progress clear, restores the non-secure bank, makes the
\* non-secure world the next ERET target, puts R in the non-secure caller's
\* x0 and does not go through spm_synchronous_sp_exit.
C6_RuntimeCompletionDelivers ==
    [][(CompletionStep /\ sp_init_in_progress = 0) =>
          /\ ns_cpu_ctx'.gpregs[1] = smc'.x1
          /\ ns_cpu_ctx' = [ns_cpu_ctx EXCEPT !.gpregs[1] = smc'.x1]
          /\ el1_sysregs' = ns_cpu_ctx.el1_sysregs
          /\ next_eret_context' = NON_SECURE
          /\ running' = NON_SECURE
          /\ ~HasOp(trace', "spm_secure_partition_exit")
          /\ c_stack' = c_stack /\ entry_rc' = entry_rc /\ init_rc' = init_rc
          /\ spm_ctx'.c_rt_ctx = spm_ctx.c_rt_ctx]_vars

\* the non-secure world has its answer R = 1 to a communicate call
C6_Witness ==
    /\ smc.valid /\ smc.flags = SECURE /\ smc.fid = SP_EVENT_COMPLETE_AARCH64
    /\ ~HasOp(trace, "spm_secure_partition_exit")
    /\ smc.x1 = 1 /\ ns_cpu_ctx.gpregs[1] = 1 /\ running = NON_SECURE
    /\ spm_ctx.cpu_ctx.gpregs[1] \in {SP_COMMUNICATE_AARCH32, SP_COMMUNICATE_AARCH64}

----------------------------------------------------------------------------
(* C7 *)

\* C7: init() returns the success sentinel 0 or aborts before it returns;
\* it never returns another result.
C7_Claim == init_rc # NoRc => init_rc = 0

----------------------------------------------------------------------------
(* C8 *)

Matched(flags, fid) ==
    \/ flags = SECURE /\ fid \in {SP_EVENT_COMPLETE_AARCH64, SP_MEM_ATTRIBUTES_SET_AARCH64}
    \/ flags = NON_SECURE /\ fid \in {SP_COMMUNICATE_AARCH32, SP_COMMUNICATE_AARCH64}

\* a step in which the world that runs makes a call the dispatcher has no case for
UnmatchedStep ==
    /\ running \in Worlds
    /\ smc'.valid /\ smc'.flags = running /\ ~Matched(smc'.flags, smc'.fid)
    /\ trace' # <<>>

\* the register bank of a world
Bank(sc, nc, world) == IF world = SECURE THEN sc.cpu_ctx ELSE nc

\* C8: a call whose (origin, identifier) pair is not one the dispatcher has a
\* case for puts SMC_UNK in its caller's x0, returns to the caller, and leaves
\* the pending frame, sp_init_in_progress, the saved banks and the next ERET
\* target as they were.
C8_UnmatchedIsUnsupported ==
    [][UnmatchedStep =>
          /\ Bank(spm_ctx', ns_cpu_ctx', running) =
                 [Bank(spm_ctx, ns_cpu_ctx, running) EXCEPT !.gpregs[1] = SMC_UNK]
          /\ \A w \in Worlds \ {running} :
                 Bank(spm_ctx', ns_cpu_ctx', w) = Bank(spm_ctx, ns_cpu_ctx, w)
          /\ running' = running
          /\ next_eret_context' = next_eret_context
          /\ spm_ctx'.c_rt_ctx = spm_ctx.c_rt_ctx
          /\ sp_init_in_progress' = sp_init_in_progress
          /\ c_stack' = c_stack /\ cm_context' = cm_context
          /\ ~xlat'.last.valid /\ xlat'.built = xlat.built
          /\ bl32_init' = bl32_init /\ ep_info' = ep_info
          /\ entry_rc' = entry_rc /\ init_rc' = init_rc
          /\ Len(trace') = 1 /\ trace'[1].op = "SMC_RET1"]_vars

\* the secure world made a communicate call and was answered SMC_UNK
C8_Witness ==
    /\ smc.valid /\ smc.enabled /\ smc.flags = SECURE /\ smc.fid = SP_COMMUNICATE_AARCH64
    /\ spm_ctx.cpu_ctx.gpregs[1] = SMC_UNK /\ running = SECURE

----------------------------------------------------------------------------
(* C9 *)

Bit(x, i) == (x \div (2 ^ i)) % 2 = 1

\* the attribute word of the last memory-attributes-set request and the
\* flags it was translated to
AttrIn == smc.x3
AttrOut == xlat.last.attributes

\* C9 as stated: read/write exactly when bit 0 is set, execute-never exactly
\* when bit 2 is set, every other bit ignored.
C9_Original ==
    xlat.last.valid =>
        /\ (MT_RW \in AttrOut) <=> Bit(AttrIn, 0)
        /\ (MT_EXECUTE_NEVER \in AttrOut) <=> Bit(AttrIn, 2)

\* C9 amended: read/write exactly when bit 0 is set and bit 1 is clear,
\* execute-never exactly when bit 2 is set; the bits above bit 2 are ignored,
\* so two inputs that agree on bits 0 to 2 give the same result.
C9_Amended ==
    xlat.last.valid =>
        /\ (MT_RW \in AttrOut) <=> (Bit(AttrIn, 0) /\ ~Bit(AttrIn, 1))
        /\ (MT_EXECUTE_NEVER \in AttrOut) <=> Bit(AttrIn, 2)
        /\ \A b \in 0..MaxAttr :
              (\A i \in 0..2 : Bit(b, i) <=> Bit(AttrIn, i))
                  => smc_attr_to_mmap_attr(b) = AttrOut

C9_Witness == xlat.last.valid /\ AttrIn = 3 /\ MT_RW \notin AttrOut

----------------------------------------------------------------------------
(* C10 *)

\* C10: the result holds the base flags and nothing but base, read/write and
\* execute-never; 0b000 gives the base flags alone, 0b101 gives base plus
\* read/write plus execute-never; a bit above bit 2 changes nothing.
C10_BaseFlagsAndExamples ==
    xlat.last.valid =>
        /\ {MT_MEMORY, MT_SECURE} \subseteq AttrOut
        /\ AttrOut \subseteq {MT_MEMORY, MT_SECURE, MT_RW, MT_EXECUTE_NEVER}
        /\ AttrIn = 0 => AttrOut = {MT_MEMORY, MT_SECURE}
        /\ AttrIn = 5 => AttrOut = {MT_MEMORY, MT_SECURE, MT_RW, MT_EXECUTE_NEVER}
        /\ \A b \in 0..MaxAttr :
              (b % 8 = AttrIn % 8) => smc_attr_to_mmap_attr(b) = AttrOut

\* an attribute word with a bit above bit 2 set has been translated
C10_Witness ==
    /\ xlat.last.valid /\ AttrIn = 8 /\ AttrOut = {MT_MEMORY, MT_SECURE}

----------------------------------------------------------------------------
(* C11 *)

\* a step in which the secure world makes a memory-attributes-set call
MemAttrStep ==
    /\ running = SECURE
    /\ smc'.valid /\ smc'.flags = SECURE /\ smc'.fid = SP_MEM_ATTRIBUTES_SET_AARCH64

\* the number of calls of op in the log tr
CountOp(tr, op) == Cardinality({i \in 1..Len(tr) : tr[i].op = op})

\* the flags translate-attributes is to give, read off the bits of the word
ExpectedAttr(b) ==
    {MT_MEMORY, MT_SECURE}
        \cup (IF Bit(b, 0) /\ ~Bit(b, 1) THEN {MT_RW} ELSE {})
        \cup (IF Bit(b, 2) THEN {MT_EXECUTE_NEVER} ELSE {})

\* C11: a secure memory-attributes-set call (A, N, B) makes exactly one
\* permission-change request, for N * PAGE_SIZE bytes at A with the
\* translated attributes, and answers the secure caller with the
\* collaborator's status as it is, success or failure; it does not abort,
\* does not switch worlds and leaves the pending frame and
\* sp_init_in_progress alone.
C11_MemAttrPassesThrough ==
    [][MemAttrStep =>
          /\ CountOp(trace', "change_mem_attributes") = 1
          /\ xlat'.last.valid
          /\ xlat'.last.base_va = smc'.x1
          /\ xlat'.last.size = smc'.x2 * PAGE_SIZE
          /\ xlat'.last.attributes = ExpectedAttr(smc'.x3)
          /\ xlat'.last.rc \in XlatStatuses
          /\ spm_ctx'.cpu_ctx = [spm_ctx.cpu_ctx EXCEPT !.gpregs[1] = xlat'.last.rc]
          /\ trace'[Len(trace')] = [op |-> "SMC_RET1", arg |-> SpmCpuCtx]
          /\ running' = SECURE
          /\ next_eret_context' = next_eret_context /\ next_eret_context = SECURE
          /\ ns_cpu_ctx' = ns_cpu_ctx
          /\ spm_ctx'.c_rt_ctx = spm_ctx.c_rt_ctx
          /\ sp_init_in_progress' = sp_init_in_progress
          /\ c_stack' = c_stack
          /\ ~HasOp(trace', "cm_el1_sysregs_context_restore")
          /\ ~HasOp(trace', "cm_set_next_eret_context")]_vars

\* a zero-length request was refused and the refusal handed to the caller
C11_Witness ==
    /\ smc.valid /\ smc.fid = SP_MEM_ATTRIBUTES_SET_AARCH64 /\ smc.x2 = 0
    /\ xlat.last.valid /\ xlat.last.size = 0 /\ xlat.last.rc = XLAT_EINVAL
    /\ spm_ctx.cpu_ctx.gpregs[1] = XLAT_EINVAL /\ running = SECURE

----------------------------------------------------------------------------
(* C12 *)

\* a step of the dispatcher: the framework hands a call to spm_smc_handler
DispatchStep == running \in Worlds /\ smc'.valid /\ smc'.enabled

\* C12: while the firmware runs, sp_init_in_progress is set exactly while
\* the entry made by spm_init has not returned: it is clear before
\* spm_init runs and in every state after spm_init has returned, and no
\* path of the dispatcher sets it.
C12_FlagOnlyDuringInit ==
    /\ [](/\ sp_init_in_progress \in {0, 1}
          /\ ~Halted(Machine(0)) => (sp_init_in_progress = 1 <=> Blocked)
          /\ sp_init_in_progress = 1 => boot = "in_init" /\ init_rc = NoRc
          /\ boot \in {"cold", "setup_done"} => sp_init_in_progress = 0
          /\ init_rc # NoRc => sp_init_in_progress = 0)
    /\ [][DispatchStep => sp_init_in_progress' <= sp_init_in_progress]_vars

\* the flag was set by spm_init, a completion call cleared it, and the
\* normal world has made a call since
C12_Witness ==
    /\ init_rc = 0 /\ sp_init_in_progress = 0
    /\ smc.valid /\ smc.enabled /\ smc.flags = NON_SECURE /\ running = SECURE

----------------------------------------------------------------------------
(* C13 *)

CommunicateFids == {SP_COMMUNICATE_AARCH32, SP_COMMUNICATE_AARCH64}

\* the call dispatched last was a communicate call of the normal world
CommunicateDone ==
    /\ smc.valid /\ smc.enabled /\ smc.flags = NON_SECURE
    /\ smc.fid \in CommunicateFids

\* a step in which the dispatcher handles a communicate call of the normal world
CommunicateStep ==
    /\ running = NON_SECURE
    /\ smc'.valid /\ smc'.enabled /\ smc'.flags = NON_SECURE
    /\ smc'.fid \in CommunicateFids

\* C13 as stated: after a communicate call the secure world holds
\* (fid, x2, x3, core id), the pending frame is empty and the flag is clear.
C13_Original ==
    CommunicateDone =>
        /\ spm_ctx.cpu_ctx.gpregs = <<smc.fid, smc.x2, smc.x3, plat_my_core_pos>>
        /\ running = SECURE
        /\ spm_ctx.c_rt_ctx = 0
        /\ sp_init_in_progress = 0

\* C13, amended: a communicate call of the normal world, of either width,
\* resumes the secure world with the return values (fid, x2, x3, core id),
\* x1 dropped, and makes no synchronous entry: no frame is captured, the
\* pending frame is left as it was (empty in a build with DEBUG, the frame
\* of the boot entry otherwise) and sp_init_in_progress is clear before
\* and after.
C13_Amended ==
    [][CommunicateStep =>
          /\ spm_ctx'.cpu_ctx.gpregs = <<smc'.fid, smc'.x2, smc'.x3, plat_my_core_pos>>
          /\ running' = SECURE
          /\ ~HasOp(trace', "spm_secure_partition_enter")
          /\ c_stack' = c_stack /\ c_stack = <<>>
          /\ spm_ctx'.c_rt_ctx = spm_ctx.c_rt_ctx
          /\ DEBUG => spm_ctx'.c_rt_ctx = 0
          /\ sp_init_in_progress = 0 /\ sp_init_in_progress' = 0]_vars

\* a 64-bit communicate call was handed to the secure world in a build
\* that keeps the frame of the boot entry
C13_Witness ==
    /\ CommunicateDone /\ smc.fid = SP_COMMUNICATE_AARCH64 /\ ~DEBUG
    /\ spm_ctx.cpu_ctx.gpregs = <<SP_COMMUNICATE_AARCH64, smc.x2, smc.x3, plat_my_core_pos>>
    /\ smc.x1 # smc.x2 /\ spm_ctx.c_rt_ctx # 0 /\ running = SECURE

----------------------------------------------------------------------------
(* C14 *)

\* C14: whenever the dispatcher handles a communicate call of the normal
\* world, the secure world is parked right after a completion call: the
\* call on which the secure world gave control up last was a completion
\* call, spm_init has returned, and no earlier communicate call still
\* waits for its completion (the secure world is not inside a request).
C14_ParkedAfterCompletion ==
    [][CommunicateStep =>
          /\ sp_left_by = "COMPLETE"
          /\ init_rc # NoRc /\ boot = "runtime"
          /\ c_stack = <<>>
          /\ sp_init_in_progress = 0
          /\ spm_ctx.cpu_ctx.el3_state.from = "el1"
          /\ sp_left_by' = "RUNNING"]_vars

\* a communicate call is handled after the secure world completed an
\* earlier request with the result MaxResult
C14_Witness ==
    /\ CommunicateDone /\ sp_left_by = "RUNNING" /\ running = SECURE
    /\ spm_ctx.cpu_ctx.gpregs[2] = smc.x2
    /\ ns_cpu_ctx.gpregs[1] = MaxResult
    /\ ns_cpu_ctx.el1_sysregs.world = NON_SECURE

----------------------------------------------------------------------------
(* C15 *)

\* the EL1 system registers of the world that makes a call, as the
\* dispatcher finds them
LiveAtCall(world) == WorldRan(Machine(0), world).el1_sysregs

\* the saved EL1 system registers of a world's bank, now and after the step
SavedNow(world) == Bank(spm_ctx, ns_cpu_ctx, world).el1_sysregs

SavedNext(world) == Bank(spm_ctx', ns_cpu_ctx', world).el1_sysregs

\* a completion call made while sp_init_in_progress is clear
RuntimeCompletionStep == CompletionStep /\ sp_init_in_progress = 0

\* C15: on the paths of the dispatcher that switch worlds the outgoing
\* world's bank is saved before the incoming world's bank is restored and
\* before the next-transfer target is set: a communicate call saves the
\* non-secure bank, then restores the secure one; a completion call with
\* the flag clear saves the secure bank, then restores the non-secure one.
\* A bank is written only when its world leaves, so each restore brings
\* back what was saved when that world left last.
C15_SaveBeforeRestore ==
    [][/\ CommunicateStep =>
            /\ trace' = << [op |-> "cm_el1_sysregs_context_save", arg |-> NON_SECURE],
                           [op |-> "cm_el1_sysregs_context_restore", arg |-> SECURE],
                           [op |-> "cm_set_next_eret_context", arg |-> SECURE],
                           [op |-> "SMC_RET4", arg |-> SpmCpuCtx] >>
            /\ SavedNext(NON_SECURE) = LiveAtCall(NON_SECURE)
            /\ el1_sysregs' = SavedNow(SECURE)
            /\ el1_sysregs'.world = SECURE
       /\ RuntimeCompletionStep =>
            /\ trace' = << [op |-> "cm_el1_sysregs_context_save", arg |-> SECURE],
                           [op |-> "cm_set_elr_spsr_el3", arg |-> SECURE],
                           [op |-> "cm_el1_sysregs_context_restore", arg |-> NON_SECURE],
                           [op |-> "cm_set_next_eret_context", arg |-> NON_SECURE],
                           [op |-> "SMC_RET1", arg |-> NsCpuCtx] >>
            /\ SavedNext(SECURE) = LiveAtCall(SECURE)
            /\ el1_sysregs' = SavedNow(NON_SECURE)
            /\ el1_sysregs'.world = NON_SECURE
       /\ DispatchStep =>
            \A w \in Worlds \ {running} : SavedNext(w) = SavedNow(w)]_vars

\* both switches have happened: the bank of the normal world holds what a
\* communicate call saved and the live registers are those the completion
\* call restored
C15_Witness ==
    /\ smc.valid /\ smc.flags = SECURE /\ smc.fid = SP_EVENT_COMPLETE_AARCH64
    /\ running = NON_SECURE /\ boot = "runtime"
    /\ el1_sysregs = ns_cpu_ctx.el1_sysregs /\ el1_sysregs.world = NON_SECURE
    /\ spm_ctx.cpu_ctx.el1_sysregs.world = SECURE
    /\ HasOp(trace, "cm_el1_sysregs_context_restore")

----------------------------------------------------------------------------
(* C16 *)

\* the deferred init callback is registered
Registered == bl32_init = "spm_init"

\* the secure context holds a return state: cm_init_my_context has filled
\* it from the entry descriptor
Seeded == spm_ctx.cpu_ctx.el3_state.from # "none"

\* the secure partition has been entered at least once
Entered == sp_left_by # "NONE"

\* the order of BL31's boot flow
BootOrder ==
    { <<"cold", "setup_done">>, <<"setup_done", "in_init">>, <<"in_init", "init_done">>,
      <<"init_done", "runtime">>, <<"setup_done", "runtime">> }

\* C16 as stated: the callback is registered only once the secure context
\* is the active secure context and seeded from the entry descriptor and
\* the secure address space is built.
C16_Original ==
    Registered => cm_context[SECURE] = SpmCpuCtx /\ Seeded /\ xlat.built

\* C16, amended: the sequencer moves forward only. The callback is
\* registered only after the secure context was made the active secure
\* context, the entry descriptor was prepared and the secure address space
\* was built, in that order; the context is seeded from the descriptor
\* later, by spm_init, right before the first entry. The first entry never
\* comes before registration nor after a failed spm_setup.
C16_Amended ==
    /\ [](/\ Registered =>
               /\ cm_context[SECURE] = SpmCpuCtx /\ xlat.built /\ setup_rc = 0
               /\ ep_info.pc = SP_ENTRY_PC /\ ep_info.args = "zero"
          /\ Seeded => Registered /\ InitInvoked
          /\ Entered => Registered /\ Seeded /\ InitInvoked
          /\ boot = "setup_done" => ~Seeded /\ ~Entered
          /\ setup_rc = 1 => ~Registered /\ ~Entered /\ c_stack = <<>> /\ running # SECURE)
    /\ [][/\ boot' # boot => <<boot, boot'>> \in BootOrder
          /\ boot = "cold" /\ Registered' =>
               trace' = << [op |-> "cm_set_context", arg |-> SECURE],
                           [op |-> "secure_partition_setup", arg |-> SECURE],
                           [op |-> "bl31_register_bl32_init", arg |-> "spm_init"] >>
          /\ boot = "setup_done" /\ boot' = "in_init" =>
               /\ Registered /\ setup_rc = 0
               /\ trace'[1] = [op |-> "cm_init_my_context", arg |-> SECURE]
               /\ trace'[Len(trace')] = [op |-> "spm_secure_partition_enter", arg |-> SECURE]
               /\ Seeded' /\ Entered']_vars

\* the callback is registered and the secure context has not been seeded
C16_Witness ==
    /\ Registered /\ boot = "setup_done" /\ setup_rc = 0
    /\ spm_ctx.cpu_ctx = ZeroCtx /\ cm_context[SECURE] = SpmCpuCtx /\ xlat.built

----------------------------------------------------------------------------
(* C17 *)

\* the secure world works on a request of the normal world
ServingRequest == running = SECURE /\ boot = "runtime"

\* the completion call of the secure world has been answered to the normal world
Answered ==
    /\ running = NON_SECURE
    /\ smc.valid /\ smc.flags = SECURE /\ smc.fid = SP_EVENT_COMPLETE_AARCH64
    /\ ns_cpu_ctx.gpregs[1] = smc.x1

\* the entry made by spm_init has returned, and spm_init has returned or
\* has aborted
InitTerminated ==
    /\ ~Blocked
    /\ \/ boot = "init_done" /\ init_rc # NoRc /\ running = "BL31"
       \/ boot = "in_init" /\ running = "PANIC"

\* C17: if the secure partition makes a completion call in the end each
\* time it is entered, the entry made by spm_init returns and spm_init
\* returns or aborts, and every communicate call is answered to the normal
\* world.
\* The secure world has control either inside the entry of spm_init or
\* while it serves a request; the boot flow never goes back, so what
\* follows a request is its answer.
C17_EntriesTerminate ==
    /\ [](/\ Blocked => running = SECURE /\ boot = "in_init"
          /\ ServingRequest => ~Blocked /\ init_rc # NoRc
          /\ Answered => boot = "runtime" /\ ~Blocked /\ init_rc # NoRc)
    /\ running = SECURE ~> (InitTerminated \/ Answered)

\* a request of the normal world has been answered with the result MaxResult
C17_Witness ==
    /\ Answered /\ boot = "runtime" /\ init_rc # NoRc /\ smc.x1 = MaxResult
    /\ sp_left_by = "COMPLETE" /\ next_eret_context = NON_SECURE

----------------------------------------------------------------------------
(* C18 *)

\* a step in which spm_init makes the first entry
EnterStep == boot = "setup_done" /\ boot' = "in_init"

\* a step in which a completion call goes to spm_synchronous_sp_exit
ExitStep == CompletionStep /\ sp_init_in_progress # 0

\* the active secure context is the dispatcher's own
SecureContextIsOurs == cm_get_context(Machine(0), SECURE) = SpmCpuCtx

\* C18: after a successful spm_setup, under the single-core protocol, what
\* the protocol assertions state holds whether or not they are compiled
\* in: the pending frame is set when spm_synchronous_sp_exit is called and
\* clear when spm_synchronous_sp_entry is called, and the active secure
\* context is the dispatcher's own at every completion call, entry, exit
\* and communicate call. The only assertion that can stop the firmware is
\* the check of the boot entry's result code.
C18_ProtocolAssertionsHold ==
    [][/\ ExitStep => spm_ctx.c_rt_ctx # 0 /\ SecureContextIsOurs
       /\ EnterStep => spm_ctx.c_rt_ctx = 0 /\ SecureContextIsOurs
       /\ CompletionStep => SecureContextIsOurs
       /\ (CompletionStep /\ ~ExitStep) => cm_get_context(Machine(0), NON_SECURE) # NULL
       /\ CommunicateStep => SecureContextIsOurs
       /\ running' # "UNDEFINED"
       /\ running' = "PANIC" => ExitStep /\ smc'.x1 # 0 /\ ~NDEBUG]_vars

\* with the assertions compiled in, the boot entry was made and left and a
\* communicate call has been handled
C18_Witness ==
    /\ ~NDEBUG /\ setup_rc = 0 /\ init_rc = 0 /\ entry_rc = 0
    /\ CommunicateDone /\ running = SECURE /\ SecureContextIsOurs

----------------------------------------------------------------------------
(* C19 *)

\* the pending frame is the frame of an entry that has not returned
FrameIsLive == spm_ctx.c_rt_ctx \in 1..Len(c_stack)

\* C19: spm_synchronous_sp_exit never resumes a stale continuation:
\* whenever it is called, the pending frame was captured by an entry that
\* has not returned yet, and that entry is the one resumed. This holds in
\* the builds that do not clear the frame too, because a completion call
\* reaches spm_synchronous_sp_exit only while sp_init_in_progress is set.
C19_NoStaleContinuation ==
    /\ [](/\ running # "UNDEFINED"
          /\ (sp_init_in_progress # 0 /\ running # "PANIC") => FrameIsLive)
    /\ [][/\ HasOp(trace', "spm_secure_partition_exit") => ExitStep /\ FrameIsLive
          /\ ExitStep =>
               /\ FrameIsLive
               /\ HasOp(trace', "spm_secure_partition_exit")
               /\ Len(c_stack') = spm_ctx.c_rt_ctx - 1
               /\ entry_rc' = smc'.x1
          /\ (CompletionStep /\ ~FrameIsLive) =>
               /\ sp_init_in_progress = 0
               /\ ~HasOp(trace', "spm_secure_partition_exit")
               /\ running' = NON_SECURE]_vars

\* in a build that leaves the frame of the boot entry in place, a
\* completion call made at run time was answered to the normal world
C19_Witness ==
    /\ ~DEBUG /\ entry_rc # NoRc /\ spm_ctx.c_rt_ctx # 0 /\ c_stack = <<>>
    /\ Answered /\ ~HasOp(trace, "spm_secure_partition_exit")

----------------------------------------------------------------------------
(* C20 *)

\* the last action ended in a reply of the dispatcher
Replied ==
    /\ smc.valid /\ trace # <<>>
    /\ trace[Len(trace)].op \in {"SMC_RET1", "SMC_RET4"}

\* the context the reply was written to
ReplyHandle == trace[Len(trace)].arg

\* the world the call dispatched last is to resume
ResumedWorld ==
    IF smc.enabled /\ smc.flags = NON_SECURE /\ smc.fid \in CommunicateFids THEN SECURE
    ELSE IF smc.enabled /\ smc.flags = SECURE /\ smc.fid = SP_EVENT_COMPLETE_AARCH64
         THEN NON_SECURE
    ELSE smc.flags

\* C20: whenever the dispatcher hands control back, the context the reply
\* was written to, the world whose EL1 system registers are live and the
\* next-transfer target name one world, and it is the world that gets
\* control: the caller's for a reply that does not switch, the secure world
\* for a communicate call, the normal world for a completion call made
\* with the flag clear.
C20_ReplyBankTargetAgree ==
    Replied =>
        /\ ReplyHandle = cm_context[ResumedWorld]
        /\ ReplyHandle = (IF ResumedWorld = SECURE THEN SpmCpuCtx ELSE NsCpuCtx)
        /\ el1_sysregs.world = ResumedWorld
        /\ next_eret_context = ResumedWorld
        /\ running = ResumedWorld

\* a communicate call handed control to the secure world, a completion
\* call having handed it to the normal world before
C20_Witness ==
    /\ Replied /\ CommunicateDone /\ ResumedWorld = SECURE
    /\ ReplyHandle = SpmCpuCtx /\ el1_sysregs.world = SECURE
    /\ next_eret_context = SECURE /\ ns_cpu_ctx.gpregs[1] = 0
    /\ ns_cpu_ctx.el1_sysregs.world = NON_SECURE /\ DEBUG

====
